---- MODULE Spec2Model ----
(***************************************************************************)
(* Study tracker (src/app.py): an upsert-by-date record store kept in a    *)
(* remote worksheet with a session-state fallback, the three button        *)
(* handlers of the page, the worksheet probing loop and the 7-record       *)
(* rolling average of the dashboard.                                       *)
(*                                                                         *)
(* A calendar date is a day ordinal (the in-memory datetime); the          *)
(* worksheet stores the '%Y-%m-%d' text, modelled as <<year, month, day>>. *)
(* Hours are whole numbers of hours.                                       *)
(***************************************************************************)
EXTENDS Integers, Sequences, FiniteSets, TLC

\* ---------------------------------------------------------------- bounds
\* Day ordinals of the model are 1..MaxDay; days after Today are in the future.
MaxDay == 3
Today == 2
\* Longest record list handed to the rolling average.
MaxRecords == 10

\* ------------------------------------------------------ program constants
\* st.number_input(min_value=0.0, max_value=24.0)
MIN_HOURS == 0
MAX_HOURS == 24
\* rolling(window=7, min_periods=1), shown when len(df) > 7
WINDOW == 7
MIN_PERIODS == 1

Days == 1..MaxDay
\* Dates the "Date" widget lets through (max_value=date.today()); the
\* "Select date to delete" widget has no max_value and lets every day through.
WidgetDates == {d \in Days : d <= Today}
\* Hours the number_input widget lets through: its two ends and one inside.
WidgetHours == {MIN_HOURS, 1, MAX_HOURS}
\* Arguments of a direct call of add_study_session, which no widget filters:
\* today and tomorrow; no hours, one hour, one hour more than a day has.
CallDates == {Today, Today + 1}
CallHours == {MIN_HOURS, 1, MAX_HOURS + 1}

\* Worksheet identifiers in the order the three loops try them; "0" is the
\* numeric index 0.
sheet_names == <<"sheet1", "Sheet1", "Sheet 1", "0">>
SheetIds == {sheet_names[i] : i \in 1..Len(sheet_names)}

VARIABLES
    conn,        \* init_connection(): TRUE when a GSheets connection exists
    sheet,       \* rows of the remote worksheet, dates as text
    study_data,  \* st.session_state.study_data, dates as datetimes
    last,        \* the last handler run: operation, arguments, return value
    shown,       \* the data frame the page displays (line 320)
    probes,      \* the last two worksheet probes: responding set, trace, outcome
    df_chart,    \* the data frame handed to the chart column
    rolling_avg  \* its rolling_avg column, as [sum, n] per row

vars == <<conn, sheet, study_data, last, shown, probes, df_chart, rolling_avg>>

\* ------------------------------------------------------------ conversions
\* strftime('%Y-%m-%d'): day 1 is 2023-12-31, day d > 1 is 2024-01-(d-1).
Strftime(d) == IF d = 1 THEN <<2023, 12, 31>> ELSE <<2024, 1, d - 1>>

\* pd.to_datetime on the stored text.
ToDatetime(s) == IF s[1] = 2023 THEN 1 ELSE s[3] + 1

\* ------------------------------------------------------------ data frames
RECURSIVE InsertByDate(_, _)
InsertByDate(row, df) ==
    IF df = <<>> THEN <<row>>
    ELSE IF row.date < Head(df).date THEN <<row>> \o df
    ELSE <<Head(df)>> \o InsertByDate(row, Tail(df))

RECURSIVE SortValuesFrom(_, _)
SortValuesFrom(df, acc) ==
    IF df = <<>> THEN acc
    ELSE SortValuesFrom(Tail(df), InsertByDate(Head(df), acc))

\* The frame left in the order it was built.
SortValuesSkipped(df) == df

\* df.sort_values('date')
SortValues(df) == SortValuesFrom(df, <<>>)

\* df[df['date'].dt.strftime('%Y-%m-%d') != date_str]
DropDate(df, date_str) ==
    SelectSeq(df, LAMBDA row : Strftime(row.date) # date_str)

\* any(df['date'].dt.strftime('%Y-%m-%d') == date_str); False on an empty frame
ExistingEntry(df, date_str) ==
    \E i \in 1..Len(df) : Strftime(df[i].date) = date_str

\* df.loc[df['date'].dt.strftime('%Y-%m-%d') == date_str, 'hours'] = hours
SetHours(df, date_str, hours) ==
    [i \in 1..Len(df) |->
        IF Strftime(df[i].date) = date_str
        THEN [date |-> df[i].date, hours |-> hours]
        ELSE df[i]]

\* df_to_write['date'] = df_to_write['date'].dt.strftime('%Y-%m-%d')
ToWrite(df) ==
    [i \in 1..Len(df) |-> [date |-> Strftime(df[i].date), hours |-> df[i].hours]]

\* The cleaning of a worksheet read: parse the dates, sort by date.
CleanRead(rows) ==
    SortValues([i \in 1..Len(rows) |->
                    [date |-> ToDatetime(rows[i].date), hours |-> rows[i].hours]])

\* ---------------------------------------------------------------- probing
\* Position in sheet_names of the first identifier of `up` (the identifiers
\* that respond to this call), or 0 when none responds.
FirstResponding(up) ==
    IF \E i \in 1..Len(sheet_names) : sheet_names[i] \in up
    THEN CHOOSE i \in 1..Len(sheet_names) :
            /\ sheet_names[i] \in up
            /\ \A j \in 1..(i - 1) : sheet_names[j] \notin up
    ELSE 0

\* The loop without its break: every identifier is tried.
ProbeWithoutBreak(up) ==
    [tried |-> sheet_names, ok |-> FirstResponding(up) # 0]

\* The for/try/break loop over sheet_names: the identifiers tried, in order,
\* and whether one of them responded.
ProbeWorksheets(up) ==
    LET k == FirstResponding(up)
    IN  [tried |-> SubSeq(sheet_names, 1, IF k = 0 THEN Len(sheet_names) ELSE k),
         ok    |-> k # 0]

\* Response sets drawn by the handlers. What a handler does with its data
\* depends on a probe only through ProbeWorksheets(up).ok, so the handlers
\* draw one set for each value of it; ProbeStep draws every subset.
Responding == {{}, SheetIds}

\* ------------------------------------------------------- get_study_data
\* c, sh, sd: connection, worksheet rows and session frame at the call.
get_study_data(c, sh, sd, up) ==
    IF c /\ ProbeWorksheets(up).ok THEN CleanRead(sh) ELSE sd

\* ---------------------------------------------------- add_study_session
\* The add-or-update block (lines 100-122 and 153-175): the frame and the tag.
UpsertRows(df, study_datetime, hours) ==
    LET date_str == Strftime(study_datetime)
    IN  IF ExistingEntry(df, date_str)
        THEN [df |-> SortValues(SetHours(df, date_str, hours)), result |-> "updated"]
        ELSE [df |-> SortValues(Append(df, [date |-> study_datetime, hours |-> hours])),
              result |-> "added"]

\* The session-state branch (lines 151-178).
AddToSession(study_datetime, hours) ==
    LET u == UpsertRows(study_data, study_datetime, hours)
    IN  [sheet |-> sheet, study_data |-> u.df, result |-> u.result]

\* A failed worksheet write reported as "error", with no session fallback.
add_study_session_no_fallback(study_date, hours, upRead, upWrite) ==
    IF conn
    THEN LET df == get_study_data(conn, sheet, study_data, upRead)
             u  == UpsertRows(df, study_date, hours)
         IN  IF ProbeWorksheets(upWrite).ok
             THEN [sheet |-> ToWrite(u.df), study_data |-> study_data,
                   result |-> u.result, write |-> "ok"]
             ELSE [sheet |-> sheet, study_data |-> study_data,
                   result |-> "error", write |-> "failed"]
    ELSE AddToSession(study_date, hours) @@ [write |-> "none"]

\* The whole function: the worksheet and session frame it leaves, its return
\* value, and what became of the worksheet write.
add_study_session(study_date, hours, upRead, upWrite) ==
    IF conn
    THEN LET df == get_study_data(conn, sheet, study_data, upRead)
             u  == UpsertRows(df, study_date, hours)
         IN  IF ProbeWorksheets(upWrite).ok
             THEN [sheet |-> ToWrite(u.df), study_data |-> study_data,
                   result |-> u.result, write |-> "ok"]
             ELSE AddToSession(study_date, hours) @@ [write |-> "failed"]
    ELSE AddToSession(study_date, hours) @@ [write |-> "none"]

\* ------------------------------------------------- delete_study_session
delete_study_session(study_date, upRead, upWrite) ==
    LET date_str == Strftime(study_date)
    IN  IF conn
        THEN LET df == get_study_data(conn, sheet, study_data, upRead)
             IN  IF df # <<>>
                 THEN IF ProbeWorksheets(upWrite).ok
                      THEN [sheet |-> ToWrite(DropDate(df, date_str)),
                            study_data |-> study_data,
                            result |-> "True", write |-> "ok"]
                      ELSE [sheet |-> sheet, study_data |-> study_data,
                            result |-> "True", write |-> "failed"]
                 ELSE [sheet |-> sheet, study_data |-> study_data,
                       result |-> "True", write |-> "none"]
        ELSE [sheet |-> sheet,
              study_data |-> IF study_data # <<>>
                             THEN DropDate(study_data, date_str) ELSE study_data,
              result |-> "True", write |-> "none"]

\* ---------------------------------------------------------------- state
\* d has no record in the worksheet nor in the session frame (recorded with
\* each run, for the properties that speak of a date the store lacks).
Absent(d) ==
    /\ ~ExistingEntry(CleanRead(sheet), Strftime(d))
    /\ ~ExistingEntry(study_data, Strftime(d))

NoRun == [op |-> "none", date |-> 0, hours |-> 0, result |-> "none",
          write |-> "none", absent |-> FALSE]

Init ==
    /\ conn \in BOOLEAN
    /\ sheet = <<>>
    /\ study_data = <<>>
    /\ last = NoRun
    /\ shown = <<>>
    /\ probes = <<>>
    /\ df_chart = <<>>
    /\ rolling_avg = <<>>

\* A call of add_study_session followed by the page's display read.
UpsertThenShow(d, h, upRead, upWrite, upShow) ==
    \E r \in {add_study_session(d, h, upRead, upWrite)} :
        /\ sheet' = r.sheet
        /\ study_data' = r.study_data
        /\ last' = [op |-> "upsert", date |-> d, hours |-> h, result |-> r.result,
                    write |-> r.write, absent |-> Absent(d)]
        /\ shown' = get_study_data(conn, r.sheet, r.study_data, upShow)

\* The response sets of one remote call: without a connection no worksheet
\* is probed.
Draws == IF conn THEN Responding ELSE {{}}

\* "Save Study Session" (lines 285-299) with hours > 0: add_study_session,
\* then st.rerun() and the display read of the new run.
SaveStudySession ==
    \E d \in WidgetDates, h \in WidgetHours, upRead, upWrite, upShow \in Draws :
        /\ h > 0
        /\ UpsertThenShow(d, h, upRead, upWrite, upShow)
        /\ UNCHANGED <<conn, probes, df_chart, rolling_avg>>

\* "Save Study Session" with hours = 0 (line 299): an error banner, no call;
\* the script goes on to the display read.
SaveRejected ==
    \E d \in WidgetDates, h \in WidgetHours, upShow \in Draws :
        /\ ~(h > 0)
        /\ last' = [op |-> "invalid", date |-> d, hours |-> h,
                    result |-> "none", write |-> "none", absent |-> Absent(d)]
        /\ shown' = get_study_data(conn, sheet, study_data, upShow)
        /\ UNCHANGED <<conn, sheet, study_data, probes, df_chart, rolling_avg>>

\* "Delete Entry" (lines 305-311): the date widget has no max_value.
DeleteEntry ==
    \E d \in Days, upRead, upWrite, upShow \in Draws :
        \E r \in {delete_study_session(d, upRead, upWrite)} :
            /\ sheet' = r.sheet
            /\ study_data' = r.study_data
            /\ last' = [op |-> "delete", date |-> d, hours |-> 0, result |-> r.result,
                        write |-> r.write, absent |-> Absent(d)]
            /\ shown' = get_study_data(conn, r.sheet, r.study_data, upShow)
            /\ UNCHANGED <<conn, probes, df_chart, rolling_avg>>

\* "Refresh Data" (lines 259-261): clear the cache, rerun, display.
RefreshData ==
    \E upShow \in Draws :
        /\ last' = [NoRun EXCEPT !.op = "refresh"]
        /\ shown' = get_study_data(conn, sheet, study_data, upShow)
        /\ UNCHANGED <<conn, sheet, study_data, probes, df_chart, rolling_avg>>

Next == SaveStudySession \/ SaveRejected \/ DeleteEntry \/ RefreshData

Spec == Init /\ [][Next]_vars

\* ------------------------------------------------------- direct callers
\* add_study_session called as a function, with arguments no widget has
\* filtered, followed by a read of the store.
CallAddStudySession ==
    \E d \in CallDates, h \in CallHours, upRead, upWrite, upShow \in Draws :
        /\ UpsertThenShow(d, h, upRead, upWrite, upShow)
        /\ UNCHANGED <<conn, probes, df_chart, rolling_avg>>

NextCall == CallAddStudySession \/ DeleteEntry \/ RefreshData

SpecCall == Init /\ [][NextCall]_vars

\* ------------------------------------------------------ worksheet probes
ProbeKinds == {"read", "add", "delete"}

\* One run of a probing loop (conn.read at lines 47-52, conn.update at lines
\* 132-138 and 218-223) against the identifiers that respond to it; the
\* last two runs are kept.
ProbeStep ==
    \E kind \in ProbeKinds, up \in SUBSET SheetIds :
        /\ conn
        /\ probes' = (IF Len(probes) < 2 THEN probes ELSE Tail(probes))
                        \o <<[kind |-> kind, up |-> up] @@ ProbeWorksheets(up)>>
        /\ UNCHANGED <<conn, sheet, study_data, last, shown, df_chart, rolling_avg>>

NextProbe == ProbeStep

SpecProbe == Init /\ [][NextProbe]_vars

\* ------------------------------------------------------ rolling average
\* Hours of the rows first..last of df, summed.
RECURSIVE SumHours(_, _, _)
SumHours(df, first, lst) ==
    IF first > lst THEN 0 ELSE df[lst].hours + SumHours(df, first, lst - 1)

\* df_sorted['hours'].rolling(window=7, min_periods=1).mean(): the window
\* slides over row positions, one row entering and, once full, one leaving.
\* A mean is kept as the window's sum and its number of rows.
RECURSIVE RollingFrom(_, _, _, _)
RollingFrom(df, i, sum, acc) ==
    IF i > Len(df) THEN acc
    ELSE LET entered == sum + df[i].hours
             kept    == IF i > WINDOW THEN entered - df[i - WINDOW].hours ELSE entered
             n       == IF i > WINDOW THEN WINDOW ELSE i
         IN  RollingFrom(df, i + 1, kept,
                         Append(acc, IF n >= MIN_PERIODS
                                     THEN [sum |-> kept, n |-> n]
                                     ELSE [sum |-> 0, n |-> 0]))

\* A window of the last WINDOW calendar days instead of the last WINDOW rows.
RollingByCalendarDay(df) ==
    [i \in 1..Len(df) |->
        LET inWindow == {j \in 1..i : df[j].date > df[i].date - WINDOW}
            first    == CHOOSE j \in inWindow : \A k \in inWindow : j <= k
        IN  [sum |-> SumHours(df, first, i), n |-> Cardinality(inWindow)]]

RollingMean(df) == RollingFrom(df, 1, 0, <<>>)

\* Frames for the chart: n rows, a fixed gap between consecutive dates,
\* hours either drawn from {1, 2} or the ramp 1..n.
ChartFrames ==
    UNION {
        {[i \in 1..n |-> [date |-> 1 + (i - 1) * gap, hours |-> hs[i]]] :
            hs \in [1..n -> {1, 2}] \cup {[i \in 1..n |-> i]}}
        : n \in 1..MaxRecords, gap \in {1, 3} }

InitStats ==
    /\ conn = FALSE
    /\ sheet = <<>>
    /\ study_data = <<>>
    /\ last = NoRun
    /\ shown = <<>>
    /\ probes = <<>>
    /\ df_chart \in ChartFrames
    /\ rolling_avg = <<>>

\* "Weekly Average" (lines 383-388): shown for more than seven rows.
WeeklyAverage ==
    /\ Len(df_chart) > 7
    /\ rolling_avg = <<>>
    /\ rolling_avg' = RollingMean(SortValues(df_chart))
    /\ UNCHANGED <<conn, sheet, study_data, last, shown, probes, df_chart>>

NextStats == WeeklyAverage

SpecStats == InitStats /\ [][NextStats]_vars

\* =================================================================== claims
\* Rows of df whose date is d.
RowsOn(df, d) == {i \in 1..Len(df) : df[i].date = d}
\* df holds exactly one row for d, with hours h.
HoldsOnce(df, d, h) ==
    /\ Cardinality(RowsOn(df, d)) = 1
    /\ \A i \in RowsOn(df, d) : df[i].hours = h
SortedByDate(df) == \A i, j \in 1..Len(df) : i < j => df[i].date <= df[j].date
OneRowPerDate(df) == \A i, j \in 1..Len(df) : i # j => df[i].date # df[j].date
\* Rows of a worksheet, as a set.
RowSet(rows) == {rows[i] : i \in 1..Len(rows)}

\* C1: after any sequence of saves and deletes from an empty store, the frame
\* get_study_data returns for display has at most one row per date and is
\* sorted ascending by date.
C1_ListSortedUnique == SortedByDate(shown) /\ OneRowPerDate(shown)

\* C1 witness: a save added an earlier date to a store that held a later
\* one, and the page shows both.
C1_Witness ==
    /\ last.op = "upsert" /\ last.result = "added"
    /\ Len(shown) >= 2
    /\ shown[1].date = last.date

\* C2 as claimed: a date absent from the store, saved twice in a row with
\* the same hours, is "added" and then "updated", and the store (worksheet
\* and session frame together) then holds one row for it, with those hours.
C2_AddedThenUpdated ==
    [][(/\ last.op = "upsert" /\ last.absent
        /\ last'.op = "upsert"
        /\ last'.date = last.date /\ last'.hours = last.hours)
       => (/\ last.result = "added"
           /\ last'.result = "updated"
           /\ HoldsOnce(CleanRead(sheet') \o study_data', last'.date, last'.hours))]_vars

\* C3 as claimed: when a save returns "added" or "updated", the display read
\* that follows shows the saved date with the saved hours.
C3_ReadYourWrites ==
    (last.op = "upsert" /\ last.result \in {"added", "updated"})
        => \E i \in 1..Len(shown) : shown[i] = [date |-> last.date, hours |-> last.hours]

\* C4 as claimed: when a delete returns True, the read that follows holds no
\* row for the deleted date.
C4_DeletedIsGone ==
    (last.op = "delete" /\ last.result = "True") => RowsOn(shown, last.date) = {}

\* C5 as claimed: a delete of a date with no record changes neither the
\* worksheet nor the session frame, and returns True.
C5_DeleteAbsentNoChange ==
    [][(last'.op = "delete" /\ Absent(last'.date))
       => (sheet' = sheet /\ study_data' = study_data /\ last'.result = "True")]_vars

\* hours <= 0, hours > 24, or a date after today.
InvalidInput(d, h) == h <= 0 \/ h > 24 \/ d > Today

C7_NoCrossBackendWrite ==
    [][\A i \in 1..Len(sheet') :
          \/ sheet'[i] \in RowSet(sheet)
          \/ /\ last'.op = "upsert"
             /\ sheet'[i] = [date |-> Strftime(last'.date), hours |-> last'.hours]]_vars

\* C8: with a connection, a save whose worksheet write fails on every
\* identifier does not return "error": it returns "added" or "updated", the
\* session frame then holds the date once with the saved hours, and the
\* worksheet is unchanged.
C8_WriteFailureFallsBack ==
    [][(conn /\ last'.op = "upsert" /\ last'.write = "failed")
       => (/\ last'.result \in {"added", "updated"}
           /\ HoldsOnce(study_data', last'.date, last'.hours)
           /\ sheet' = sheet)]_vars

\* C8 witness: such a save updated a date in the session frame while the
\* worksheet held rows.
C8_Witness ==
    /\ conn /\ last.op = "upsert" /\ last.write = "failed"
    /\ last.result = "updated"
    /\ sheet # <<>>
    /\ HoldsOnce(study_data, last.date, last.hours)

\* The identifiers in the order the source lists them.
ProbeOrder == <<"sheet1", "Sheet1", "Sheet 1", "0">>

\* C9 as amended: every probe tries the identifiers in the fixed order
\* "sheet1", "Sheet1", "Sheet 1", then index 0; it stops at the first one that
\* responds (all four are tried when none does); and each probe starts again
\* from the first identifier, whatever the one before it found.
C9_ProbeOrderNamesThenIndex ==
    \A p \in 1..Len(probes) :
        LET t == probes[p].tried
        IN  /\ Len(t) >= 1 /\ Len(t) <= Len(ProbeOrder)
            /\ t = SubSeq(ProbeOrder, 1, Len(t))
            /\ \A i \in 1..(Len(t) - 1) : t[i] \notin probes[p].up
            /\ probes[p].ok <=> t[Len(t)] \in probes[p].up
            /\ ~probes[p].ok => Len(t) = Len(ProbeOrder)

\* C9 witness: a probe that succeeded on its third identifier is followed by
\* one that starts again at "sheet1" and tries all four.
C9_Witness ==
    /\ Len(probes) = 2
    /\ probes[1].ok /\ Len(probes[1].tried) = 3
    /\ ~probes[2].ok /\ probes[2].tried[1] = "sheet1"

\* C9 as claimed: every probe starts with numeric index 0.
C9_IndexZeroFirst ==
    \A p \in 1..Len(probes) : probes[p].tried[1] = "0"

\* The smaller of two numbers.
Min(a, b) == IF a < b THEN a ELSE b

\* C10: on a frame sorted by date, the rolling average at row i is the mean
\* of the hours of the min(i, 7) rows ending at row i, whatever the gaps
\* between their dates; for hours 1..10 on ten consecutive days the value at
\* row 10 is 7 (49 over 7 rows).
C10_RollingByPosition ==
    rolling_avg # <<>> =>
        /\ Len(rolling_avg) = Len(df_chart)
        /\ \A i \in 1..Len(df_chart) :
              /\ rolling_avg[i].n = Min(i, 7)
              /\ rolling_avg[i].sum = SumHours(df_chart, i - Min(i, 7) + 1, i)
        /\ (/\ Len(df_chart) = 10
            /\ \A i \in 1..10 : df_chart[i] = [date |-> i, hours |-> i])
           => (rolling_avg[10].sum = 49 /\ rolling_avg[10].sum = 7 * rolling_avg[10].n)

\* C10 witness: the ramp 1..10 with a gap of three days between rows, with
\* its rolling average computed.
C10_Witness ==
    /\ Len(df_chart) = 10
    /\ \A i \in 1..10 : df_chart[i] = [date |-> 1 + 3 * (i - 1), hours |-> i]
    /\ Len(rolling_avg) = 10
    /\ rolling_avg[10] = [sum |-> 49, n |-> 7]

====
